---- MODULE Spec2Model ----
(***************************************************************************)
(* A model of the Hexagon-1 solver: the bit-packed Puzzle (Puzzle.h,       *)
(* Puzzle.cpp) and the depth-bounded parallel search with its solution     *)
(* formatter (main.cpp).                                                   *)
(*                                                                         *)
(* A Row (__uint128_t) is modelled as the set of the positions of its one  *)
(* bits, position 0 the least significant: & is intersection, | is union,  *)
(* ~ is the complement in 0..127, shifts move the positions and drop what  *)
(* leaves the 128 bits.                                                    *)
(***************************************************************************)
EXTENDS Integers, Sequences, FiniteSets, TLC

VARIABLES
    build,       \* what this build makes of an over-wide shift (ShiftOverflows)
    \* -- a Puzzle object driven through its public operations (SpecPuzzle)
    pz,          \* the Puzzle: [top, bottom]
    thrown,      \* TRUE once slice() has thrown std::logic_error
    hist,        \* the last operations applied, each with the Puzzle before it
    nops,        \* the number of operations applied so far
    \* -- the program main() (Spec, FairSpec)
    input,       \* the name of the start configuration of this run
    start,       \* main's Puzzle `start`
    baseMoves,   \* main's vector `baseMoves`
    script,      \* the start.move(...) calls main has still to make
    mpc,         \* where the main thread is
    spawnA,      \* the loop variable a of solveMultithread
    futures,     \* the vector `futures`: the tasks spawned, in order
    joinI,       \* the index of the future main waits for
    tasks,       \* the std::async tasks, by their captured a
    mutexLock,   \* the owner of the global std::mutex, or NoOwner
    out,         \* what has been written to std::cout, in order
    exited,      \* TRUE once the process has ended
    \* -- one call of a function of Puzzle (SpecCalls)
    call,        \* the function called and its arguments
    ret,         \* what the call returned, once it has
    \* -- one call of formatMoves (SpecFormat)
    fmMoves,     \* the argument `moves`
    fmEndsOnSlice, \* the argument `endsOnSlice`
    fmPc,        \* where formatMoves is
    fmIgnoreZeroes, \* the vector `ignoreZeroes`, once the first loop has ended
    previousList, \* the vector `previousList`
    fmPasses,    \* the number of iterations of the while loop so far
    fmOut,       \* the string `out`
    \* -- one call of solve, followed through its loops (SpecSolve)
    svPuzzle,    \* the argument `puzzle`
    svMoves,     \* the argument `moves`
    svDepth,     \* the argument `depth`
    svPc,        \* where solve is
    svA,         \* the loop variable a
    svB,         \* the loop variable b
    svTopNext,   \* the local `topNext`
    svBottomNext, \* the local `bottomNext`
    svNextMoves, \* the local `nextMoves`
    svEvents,    \* what the body of the inner loop has done for this b
    svRecorded,  \* the pairs <<a, b>> for which a move has been recorded
    \* -- one search, followed from one checkSolved to the next (SpecChecks)
    ckSearch,    \* the search: a task's lambda, or solve at depth 0
    ckPc,        \* where the search is
    ckAt,        \* the number of calls of checkSolved made so far
    ckCall       \* the arguments of the last call of checkSolved

puzzleVars == <<pz, thrown, hist, nops>>
mainVars == <<input, start, baseMoves, script, mpc, spawnA, futures, joinI,
              tasks, mutexLock, out, exited>>
callVars == <<call, ret>>
formatVars == <<fmMoves, fmEndsOnSlice, fmPc, fmIgnoreZeroes, previousList,
                fmPasses, fmOut>>
solveVars == <<svPuzzle, svMoves, svDepth, svPc, svA, svB, svTopNext,
               svBottomNext, svNextMoves, svEvents, svRecorded>>
checkVars == <<ckSearch, ckPc, ckAt, ckCall>>
unitVars == <<callVars, formatVars, solveVars, checkVars>>
vars == <<build, pz, thrown, hist, nops, input, start, baseMoves, script, mpc,
          spawnA, futures, joinI, tasks, mutexLock, out, exited, call, ret,
          fmMoves, fmEndsOnSlice, fmPc, fmIgnoreZeroes, previousList,
          fmPasses, fmOut, svPuzzle, svMoves, svDepth, svPc, svA, svB,
          svTopNext, svBottomNext, svNextMoves, svEvents, svRecorded,
          ckSearch, ckPc, ckAt, ckCall>>

\* ------------------------------------------------------------------------
\* Bounds of the model (not program constants).

\* The recursion bound of solve: the code's literal 8 in `depth > 8`
\* (main.cpp:93) is replaced by this bound, so that an exhaustive search
\* finishes.
MaxDepth == 1

\* The number of operations applied to the Puzzle object in SpecPuzzle.
MaxOps == 3

\* ------------------------------------------------------------------------
\* Program constants (Puzzle.h).

SLOT_SIZE == 6
SLOTS_PER_ROW == 18
SLOTS_PER_HALF == SLOTS_PER_ROW \div 2
ROW_BITS == SLOTS_PER_ROW * SLOT_SIZE
TOTAL_BITS == 128
HALF_BITS == (SLOTS_PER_ROW \div 2) * SLOT_SIZE

\* ------------------------------------------------------------------------
\* 128-bit unsigned arithmetic on rows.

Pow2(n) == 2 ^ n

\* Bit i of the non-negative integer x.
BitOf(n, i) == (n \div Pow2(i)) % 2

BitPositions == 0 .. (TOTAL_BITS - 1)

\* The 128-bit value written in the source as
\* static_cast<Row>(0xAAAABBBBCCCCDDDDULL) << 64 | 0xEEEEFFFFGGGGHHHHULL,
\* given as its eight 16-bit words, most significant first.
Row128(words) ==
    { q : q \in { p \in BitPositions : BitOf(words[8 - (p \div 16)], p % 16) = 1 } }

\* (static_cast<Row>(1) << n) - 1
LowBits(n) == 0 .. (n - 1)

RowAnd(x, y) == x \cap y
RowOr(x, y) == x \cup y
RowNot(x) == BitPositions \ x

\* row >> n, for 0 <= n < 128.
Shr(row, n) == { p - n : p \in { q \in row : q >= n } }

\* What a build makes of `row << n` when n >= 128, which C++ leaves
\* undefined: "zero" is the mathematical result (all bits shifted out,
\* what constant folding gives), "wrap" is the shift count taken modulo
\* the width (what the x86-64 shift instructions give).
ShiftOverflows == {"zero", "wrap"}

\* row << n, for 0 <= n; `ovf` decides the undefined case n >= 128.
Shl(row, n, ovf) ==
    IF n < TOTAL_BITS
    THEN { p + n : p \in { q \in row : q + n < TOTAL_BITS } }
    ELSE IF ovf = "zero" THEN {}
    ELSE { p + (n % TOTAL_BITS) : p \in { q \in row : q + (n % TOTAL_BITS) < TOTAL_BITS } }

\* The masks of Puzzle.h.
SLOT_MASK == LowBits(SLOT_SIZE)
ROW_MASK == LowBits(ROW_BITS)
SOLVED_TOP ==
    Row128(<<\H0000, \H0051, \H0834, \HC415, \H5187, \H5C82, \H5928, \HB6CC>>)
SOLVED_BOTTOM ==
    Row128(<<\H0000, \H09A5, \HD648, \HF38A, \H1C6C, \HAFBA, \HA9E6, \H89F7>>)
\* A mask of the other half of the row: slots 9..17.
HALF_MASK_LOW == LowBits(HALF_BITS)

HALF_MASK == Shl(LowBits(HALF_BITS), ROW_BITS - HALF_BITS, "zero")
TOP_CUBE_SHAPE ==
    Row128(<<\H0000, \H0000, \H0400, \H0100, \H0040, \H0010, \H0004, \H0001>>)
BOTTOM_CUBE_SHAPE ==
    Row128(<<\H0000, \H0040, \H0010, \H0004, \H0001, \H0000, \H4000, \H1000>>)
SLICE_MASK ==
    Row128(<<\H0000, \H0400, \H0000, \H0000, \H0010, \H0000, \H0000, \H0000>>)
ROW_ORIENTATION_MASK ==
    Row128(<<\H0000, \H0820, \H8208, \H2082, \H0820, \H8208, \H2082, \H0820>>)

\* ------------------------------------------------------------------------
\* Puzzle.cpp: the pure functions.

\* C++ `a % b` for b > 0: the remainder has the sign of a.
CRem(a, b) == IF a >= 0 THEN a % b ELSE -((-a) % b)

\* A wrap that takes the remainder once and drops its sign.
wrapPositiveUnsigned(turns) ==
    IF CRem(turns, SLOTS_PER_ROW) < 0 THEN -CRem(turns, SLOTS_PER_ROW)
    ELSE CRem(turns, SLOTS_PER_ROW)

wrapPositive(turns) ==
    CRem(CRem(turns, SLOTS_PER_ROW) + SLOTS_PER_ROW, SLOTS_PER_ROW)

\* A wrap that is not centered.
wrapNegativeUncentered(turns) == wrapPositive(turns)

wrapNegative(turns) ==
    CRem(wrapPositive(turns) + SLOTS_PER_HALF - 1, SLOTS_PER_ROW)
        - (SLOTS_PER_HALF - 1)

\* x | y on non-negative integers below 2^12.
IntOr(m, n) ==
    LET bits == 0 .. 11
        S == { i \in bits : BitOf(m, i) = 1 \/ BitOf(n, i) = 1 }
        RECURSIVE Sum(_)
        Sum(T) == IF T = {} THEN 0
                  ELSE LET i == CHOOSE j \in T : TRUE
                       IN Pow2(i) + Sum(T \ {i})
    IN Sum(S)

\* (t << SLOT_SIZE) | b for the wrapped turns t and b, computed once.
EncodeTable ==
    [t \in 0 .. (SLOTS_PER_ROW - 1), b \in 0 .. (SLOTS_PER_ROW - 1) |->
        IntOr(t * Pow2(SLOT_SIZE), b)]

encodeMove(topTurns, bottomTurns) ==
    EncodeTable[wrapPositive(topTurns), wrapPositive(bottomTurns)]

\* A decoding with a mask of four bits.
decodeMoveNarrow(move) ==
    << (move \div Pow2(SLOT_SIZE)) % Pow2(4), move % Pow2(4) >>

\* (move >> SLOT_SIZE) & 63 and move & 63, for a non-negative move.
decodeMove(move) ==
    << (move \div Pow2(SLOT_SIZE)) % Pow2(SLOT_SIZE), move % Pow2(SLOT_SIZE) >>

turnRow(row, slots, ovf) ==
    IF slots = 0 THEN row
    ELSE LET shift == wrapPositive(slots) * SLOT_SIZE
             tail == Shr(Shl(row, TOTAL_BITS - shift, ovf), TOTAL_BITS - ROW_BITS)
             next == RowOr(Shr(row, shift), tail)
         IN RowAnd(next, ROW_MASK)

\* A Puzzle is its two rows.
Puzzle(topRow, bottomRow) == [top |-> topRow, bottom |-> bottomRow]

DefaultPuzzle == Puzzle(SOLVED_TOP, SOLVED_BOTTOM)

turn(p, topTurns, bottomTurns, ovf) ==
    Puzzle(turnRow(p.top, topTurns, ovf), turnRow(p.bottom, bottomTurns, ovf))

cubeShape(p) ==
    RowAnd(p.top, TOP_CUBE_SHAPE) = {} /\ RowAnd(p.bottom, BOTTOM_CUBE_SHAPE) = {}

canSlice(p) ==
    RowAnd(p.top, SLICE_MASK) = {} /\ RowAnd(p.bottom, SLICE_MASK) = {}

\* A test of the top row that always passes.
canSliceTopAlways(p) == TRUE

canSliceTop(p) == RowAnd(p.top, SLICE_MASK) = {}

\* A test of the bottom row that always passes.
canSliceBottomAlways(p) == TRUE

canSliceBottom(p) == RowAnd(p.bottom, SLICE_MASK) = {}

isRowOrientationSolved(p) ==
    /\ RowAnd(p.top, ROW_ORIENTATION_MASK) = {}
    /\ RowAnd(RowNot(p.bottom), ROW_ORIENTATION_MASK) = {}

isSolvedByMatches(p, topMatch, topMask, bottomMatch, bottomMask) ==
    IF ~cubeShape(p) THEN FALSE
    ELSE IF ~isRowOrientationSolved(p) THEN FALSE
    ELSE /\ RowAnd(p.top, topMask) = RowAnd(topMatch, topMask)
         /\ RowAnd(p.bottom, bottomMask) = RowAnd(bottomMatch, bottomMask)

\* An isSolved that looks at the top row alone.
isSolvedTopOnly(p) == p.top = SOLVED_TOP

isSolved(p) == p.top = SOLVED_TOP /\ p.bottom = SOLVED_BOTTOM

\* print(), lines 163-166: the four predicates it writes, in order.
printFlags(p) ==
    << cubeShape(p), canSlice(p), isRowOrientationSolved(p), isSolved(p) >>

\* A swap that forgets the bottom row.
sliceSwapTopOnly(p) ==
    Puzzle(RowOr(RowAnd(p.top, RowNot(HALF_MASK)), RowAnd(p.bottom, HALF_MASK)),
           p.bottom)

\* The swap of slice(), lines 69-73, once canSlice() has been tested.
sliceSwap(p) ==
    LET topHalf == RowAnd(p.top, HALF_MASK)
        bottomHalf == RowAnd(p.bottom, HALF_MASK)
    IN Puzzle(RowOr(RowAnd(p.top, RowNot(HALF_MASK)), bottomHalf),
              RowOr(RowAnd(p.bottom, RowNot(HALF_MASK)), topHalf))

\* A slice() without the test of canSlice().
sliceUnchecked(p) == [thrown |-> FALSE, p |-> sliceSwap(p)]

\* slice(): [thrown |-> TRUE] is the std::logic_error, the Puzzle untouched.
slice(p) ==
    IF ~canSlice(p) THEN [thrown |-> TRUE, p |-> p]
    ELSE [thrown |-> FALSE, p |-> sliceSwap(p)]

\* move(topTurns, bottomTurns): turn, then slice.
move(p, topTurns, bottomTurns, ovf) == slice(turn(p, topTurns, bottomTurns, ovf))

\* The 6-bit slot i of a row, slot 0 the most significant of the 108 bits
\* (printRow: row >> ((SLOTS_PER_ROW - 1 - i) * SLOT_SIZE) & SLOT_MASK).
SlotBits(row, i) ==
    RowAnd(Shr(row, (SLOTS_PER_ROW - 1 - i) * SLOT_SIZE), SLOT_MASK)

\* move(moves, topTurns, bottomTurns): move, then record the encoded move.
\* When slice() throws, the turn has been made and nothing is recorded.
moveLogged(p, moves, topTurns, bottomTurns, ovf) ==
    LET r == move(p, topTurns, bottomTurns, ovf)
    IN [thrown |-> r.thrown,
        p |-> r.p,
        moves |-> IF r.thrown THEN moves
                  ELSE Append(moves, encodeMove(topTurns, bottomTurns))]

\* ------------------------------------------------------------------------
\* main.cpp: formatMoves.

\* v[i] of a std::vector, indexed from 0.
At(v, i) == v[i + 1]

\* One token of the text sent to std::cout: a number followed by a space,
\* or the delimiter "/ ".
Num(n) == [tok |-> "num", v |-> n]
Slash == [tok |-> "/", v |-> 0]

\* A first loop that drops every zero move.
RECURSIVE ignoreZeroesDropAll(_, _, _, _)
ignoreZeroesDropAll(moves, i, sliceParity, acc) ==
    IF i >= Len(moves) THEN acc
    ELSE ignoreZeroesDropAll(moves, i + 1, sliceParity,
             IF At(moves, i) = 0 THEN acc ELSE Append(acc, At(moves, i)))

\* Lines 19-36: the loop that drops the zero moves, keeping one entry for an
\* odd run of them; `acc` is ignoreZeroes.
RECURSIVE ignoreZeroesLoop(_, _, _, _)
ignoreZeroesLoop(moves, i, sliceParity, acc) ==
    IF i = Len(moves)
    THEN IF sliceParity % 2 = 1 THEN Append(acc, At(moves, i - 1)) ELSE acc
    ELSE IF At(moves, i) = 0
    THEN ignoreZeroesLoop(moves, i + 1, sliceParity + 1, acc)
    ELSE ignoreZeroesLoop(moves, i + 1, 0,
             Append(IF sliceParity % 2 = 1 THEN Append(acc, At(moves, i - 1))
                    ELSE acc,
                    At(moves, i)))

\* A pass that copies previousList as it is, zero entries too.
RECURSIVE cancelPassKeepAll(_, _, _, _, _, _)
cancelPassKeepAll(prev, i, lastMove, acc, madeNoChange, ub) ==
    IF i >= Len(prev)
    THEN [list |-> acc, madeNoChange |-> madeNoChange, ub |-> ub]
    ELSE cancelPassKeepAll(prev, i + 1, At(prev, i), Append(acc, At(prev, i)),
                           madeNoChange, ub)

\* Lines 44-62: one pass of the cancellation loop over previousList; `acc`
\* is ignoreDuplicates.  pop_back() on an empty vector is undefined: `ub`
\* records that it happened.
RECURSIVE cancelPass(_, _, _, _, _, _)
cancelPass(prev, i, lastMove, acc, madeNoChange, ub) ==
    IF i >= Len(prev)
    THEN [list |-> acc, madeNoChange |-> madeNoChange, ub |-> ub]
    ELSE IF At(prev, i) = 0
    THEN cancelPass(prev, i + 1, lastMove, acc, madeNoChange, ub)
    ELSE LET last == decodeMove(lastMove)
             cur == decodeMove(At(prev, i))
         IN IF /\ At(prev, i) # 0
               /\ last[1] = wrapPositive(-cur[1])
               /\ last[2] = wrapPositive(-cur[2])
            THEN cancelPass(prev, i + 1, 0,
                            IF acc = <<>> THEN acc
                            ELSE SubSeq(acc, 1, Len(acc) - 1),
                            FALSE, ub \/ acc = <<>>)
            ELSE cancelPass(prev, i + 1, At(prev, i),
                            Append(acc, At(prev, i)), madeNoChange, ub)

\* Lines 38-64: passes are repeated until one makes no change.
RECURSIVE cancelLoop(_, _)
cancelLoop(prev, ub) ==
    LET r == cancelPass(prev, 0, 0, <<>>, TRUE, ub)
    IN IF r.madeNoChange THEN r ELSE cancelLoop(r.list, r.ub)

\* Lines 69-79: the text of the moves.
RECURSIVE render(_, _, _, _)
render(prev, i, endsOnSlice, acc) ==
    IF i >= Len(prev) THEN acc
    ELSE LET mv == At(prev, i)
             d == decodeMove(mv)
             shown == IF mv # 0
                      THEN acc \o << Num(wrapNegative(d[1])),
                                     Num(wrapNegative(d[2])) >>
                      ELSE acc
             delim == /\ i < Len(prev) - (IF endsOnSlice THEN 0 ELSE 1)
                      /\ ~(mv = 0 /\ i > 0)
         IN render(prev, i + 1, endsOnSlice,
                   IF delim THEN Append(shown, Slash) ELSE shown)

\* formatMoves(moves, endsOnSlice): `list` is the final previousList,
\* `count` the number in the header line "Solution found in <count>
\* moves:" that formatMoves itself writes to std::cout (line 67), `text`
\* the string it returns.
formatMoves(moves, endsOnSlice) ==
    LET r == cancelLoop(ignoreZeroesLoop(moves, 0, 0, <<>>), FALSE)
    IN [list |-> r.list,
        count |-> Len(r.list),
        text |-> render(r.list, 0, endsOnSlice, <<>>),
        ub |-> r.ub]

\* ------------------------------------------------------------------------
\* main.cpp: the search.

MOVES == <<0, 3, 15, 6, 12, 9, 1, 17, 2>>
SIZE_OF_MOVES == Len(MOVES)

\* MOVES[a], a counted from 0.
MOVE(a) == MOVES[a + 1]

\* The condition of checkSolved (line 85).
solvedCheck(p) == cubeShape(p) /\ isRowOrientationSolved(p)

\* What a search ends in:
\*   "none"   it returned, no checkSolved test having succeeded;
\*   "found"  a checkSolved test succeeded on `moves` with `endsOnSlice`:
\*            the thread goes on to lock mutexLock and never comes back;
\*   "fault"  slice() threw std::logic_error.
NoResult == [kind |-> "none", moves |-> <<>>, endsOnSlice |-> FALSE]
Found(moves, endsOnSlice) ==
    [kind |-> "found", moves |-> moves, endsOnSlice |-> endsOnSlice]
Fault == [kind |-> "fault", moves |-> <<>>, endsOnSlice |-> FALSE]

RECURSIVE solve(_, _, _, _)
RECURSIVE solveTop(_, _, _, _, _)
RECURSIVE solveBottom(_, _, _, _, _, _)

\* Lines 106-118: the body of the inner loop of solve for one b.
solveVisit(topNext, a, b, moves, depth, ovf) ==
    LET bottomNext == turn(topNext, 0, MOVE(b), ovf)
    IN IF ~canSliceBottom(bottomNext) THEN NoResult
       ELSE LET nextMoves == Append(moves, encodeMove(MOVE(a), MOVE(b)))
            IN IF solvedCheck(bottomNext) THEN Found(nextMoves, FALSE)
               ELSE LET s == slice(bottomNext)
                    IN IF s.thrown THEN Fault
                       ELSE IF solvedCheck(s.p) THEN Found(nextMoves, TRUE)
                       ELSE solve(s.p, nextMoves, depth + 1, ovf)

\* Lines 105-119: the inner loop of solve, from b on.
solveBottom(topNext, a, b, moves, depth, ovf) ==
    IF b >= SIZE_OF_MOVES THEN NoResult
    ELSE LET r == solveVisit(topNext, a, b, moves, depth, ovf)
         IN IF r.kind # "none" THEN r
            ELSE solveBottom(topNext, a, b + 1, moves, depth, ovf)

\* Lines 97-120: the outer loop of solve, from a on.
solveTop(p, a, moves, depth, ovf) ==
    IF a >= SIZE_OF_MOVES THEN NoResult
    ELSE LET topNext == turn(p, MOVE(a), 0, ovf)
         IN IF ~canSliceTop(topNext)
            THEN solveTop(p, a + 1, moves, depth, ovf)
            ELSE LET r == solveBottom(topNext, a, 0, moves, depth, ovf)
                 IN IF r.kind # "none" THEN r
                    ELSE solveTop(p, a + 1, moves, depth, ovf)

\* solve(puzzle, moves, depth); the literal 8 of line 93 is MaxDepth here.
solve(p, moves, depth, ovf) ==
    IF depth > MaxDepth THEN NoResult
    ELSE solveTop(p, 0, moves, depth, ovf)

\* A loop body that tests and searches nothing.
taskVisitNothing(topNext, a, b, moves, ovf) == NoResult

\* Lines 136-148: the body of the loop of a task for one b.
taskVisit(topNext, a, b, moves, ovf) ==
    LET bottomNext == turn(topNext, 0, MOVE(b), ovf)
    IN IF ~canSliceBottom(bottomNext) THEN NoResult
       ELSE LET nextMoves == Append(moves, encodeMove(MOVE(a), MOVE(b)))
            IN IF solvedCheck(bottomNext) THEN Found(nextMoves, FALSE)
               ELSE LET s == slice(bottomNext)
                    IN IF s.thrown THEN Fault
                       ELSE IF solvedCheck(s.p) THEN Found(nextMoves, TRUE)
                       ELSE solve(s.p, nextMoves, 1, ovf)

\* Lines 135-149: the lambda a task runs, from b on, with its captured
\* topNext, a and baseMoves.
RECURSIVE taskLoop(_, _, _, _, _)
taskLoop(topNext, a, b, moves, ovf) ==
    IF b >= SIZE_OF_MOVES THEN NoResult
    ELSE LET r == taskVisit(topNext, a, b, moves, ovf)
         IN IF r.kind # "none" THEN r
            ELSE taskLoop(topNext, a, b + 1, moves, ovf)

taskRun(topNext, a, moves, ovf) == taskLoop(topNext, a, 0, moves, ovf)

\* ------------------------------------------------------------------------
\* The start configurations.

\* The calls start.move(baseMoves, t, b) of main, lines 162-173.
MainScript ==
    << <<0, 0>>, <<3, 0>>, <<-3, -3>>, <<0, 3>>, <<1, 0>>, <<0, 0>>,
       <<0, 0>>, <<0, 0>>, <<0, 0>>, <<3, 0>>, <<-3, -3>>, <<0, 3>> >>

\* A row for Puzzle(topRow, bottomRow): the bit SLICE_MASK tests is set in
\* every slot but slots 0 and 9, so that only the turns by 0 and by 9 allow
\* a slice, and no ROW_ORIENTATION_MASK bit is set, so that no Puzzle made
\* of two such rows passes isRowOrientationSolved.
StuckRow == { SLOT_SIZE * k + 4 : k \in 0 .. (SLOTS_PER_ROW - 1) } \ SLICE_MASK

\* A row with bits above the 108 a row uses.
HighRow == SOLVED_TOP \cup {ROW_BITS, TOTAL_BITS - 1}

\* The runs of the program: main as written, main with a shorter scramble,
\* and a start Puzzle built from explicit rows that has no solution.
Inputs ==
    { [name |-> "main", puzzle |-> DefaultPuzzle, script |-> MainScript],
      [name |-> "short", puzzle |-> DefaultPuzzle, script |-> << <<3, 0>> >>],
      [name |-> "stuck", puzzle |-> Puzzle(StuckRow, StuckRow), script |-> <<>>] }

\* The Puzzles the object of SpecPuzzle starts as: Puzzle() and three
\* Puzzle(topRow, bottomRow).
StartPuzzles ==
    { DefaultPuzzle,
      Puzzle(SOLVED_BOTTOM, SOLVED_TOP),
      Puzzle(ROW_MASK, {}),
      Puzzle(HighRow, SOLVED_BOTTOM) }

\* The arguments of turn and move in SpecPuzzle.
TurnPairs == { <<3, 0>>, <<-3, -3>>, <<1, 0>>, <<9, 9>>, <<18, 0>> }

\* The rows fit in 108 bits.
FitsRow(row) == row \subseteq ROW_MASK
Fits(p) == FitsRow(p.top) /\ FitsRow(p.bottom)

\* ------------------------------------------------------------------------
\* The state of the program before anything ran.

TaskIds == 0 .. (SIZE_OF_MOVES - 1)

\* A task not spawned.
NoTask ==
    [pc |-> "unspawned", topNext |-> Puzzle({}, {}), a |-> 0, base |-> <<>>,
     moves |-> <<>>, endsOnSlice |-> FALSE]

\* The capture list [topNext, a, baseMoves] of the lambda, line 134.
Capture(topNext, a, moves) ==
    [pc |-> "run", topNext |-> topNext, a |-> a, base |-> moves,
     moves |-> <<>>, endsOnSlice |-> FALSE]

\* Who wrote an entry of std::cout.
TaskThread(t) == <<"task", t>>
MainThread == <<"main", 0>>

Header(t, count) ==
    [by |-> TaskThread(t), what |-> "header", count |-> count, text |-> <<>>]
\* A text line that leaves out what formatMoves returned.
BodyEmpty(t, text) ==
    [by |-> TaskThread(t), what |-> "body", count |-> 0, text |-> <<>>]
Body(t, text) ==
    [by |-> TaskThread(t), what |-> "body", count |-> 0, text |-> text]
Undefined(t) ==
    [by |-> TaskThread(t), what |-> "undefined", count |-> 0, text |-> <<>>]
NoSolutionFound ==
    [by |-> MainThread, what |-> "nosolution", count |-> 0, text |-> <<>>]

PuzzleIdle ==
    /\ pz = DefaultPuzzle
    /\ thrown = FALSE
    /\ hist = <<>>
    /\ nops = 0

MainIdle ==
    /\ input = "none"
    /\ start = DefaultPuzzle
    /\ baseMoves = <<>>
    /\ script = <<>>
    /\ mpc = "unused"
    /\ spawnA = 0
    /\ futures = <<>>
    /\ joinI = 0
    /\ tasks = [t \in TaskIds |-> NoTask]
    /\ mutexLock = {}
    /\ out = <<>>
    /\ exited = FALSE

\* No function of Puzzle has been called, and none has returned.
NoCall ==
    [fn |-> "none", n |-> 0, m |-> 0, p |-> DefaultPuzzle,
     match |-> Puzzle({}, {}), mask |-> Puzzle({}, {})]
NoRet ==
    [done |-> FALSE, i |-> 0, pair |-> <<0, 0>>, p |-> DefaultPuzzle,
     b |-> FALSE, flags |-> <<FALSE, FALSE, FALSE, FALSE>>]

CallIdle ==
    /\ call = NoCall
    /\ ret = NoRet

\* formatMoves has not been called.
FormatIdle ==
    /\ fmMoves = <<>>
    /\ fmEndsOnSlice = FALSE
    /\ fmPc = "unused"
    /\ fmIgnoreZeroes = <<>>
    /\ previousList = <<>>
    /\ fmPasses = 0
    /\ fmOut = <<>>

\* No call of solve is followed.
SolveIdle ==
    /\ svPuzzle = DefaultPuzzle
    /\ svMoves = <<>>
    /\ svDepth = 0
    /\ svPc = "unused"
    /\ svA = 0
    /\ svB = 0
    /\ svTopNext = DefaultPuzzle
    /\ svBottomNext = DefaultPuzzle
    /\ svNextMoves = <<>>
    /\ svEvents = <<>>
    /\ svRecorded = {}

\* No search is followed.
NoSearch ==
    [fn |-> "none", p |-> DefaultPuzzle, a |-> 0, moves |-> <<>>]
NoCheck == [p |-> DefaultPuzzle, moves |-> <<>>, endsOnSlice |-> FALSE]
CheckIdle ==
    /\ ckSearch = NoSearch
    /\ ckPc = "unused"
    /\ ckAt = 0
    /\ ckCall = NoCheck

UnitIdle == CallIdle /\ FormatIdle /\ SolveIdle /\ CheckIdle

\* ------------------------------------------------------------------------
\* SpecPuzzle: one Puzzle object and calls of its public operations.

Op(name, a, b) == [op |-> name, a |-> a, b |-> b, before |-> pz]

\* hist keeps the last two operations.
Remember(o) ==
    IF Len(hist) < 2 THEN Append(hist, o) ELSE << hist[2], o >>

InitPuzzle ==
    /\ build \in ShiftOverflows
    /\ pz \in StartPuzzles
    /\ thrown = FALSE
    /\ hist = <<>>
    /\ nops = 0
    /\ MainIdle
    /\ UnitIdle

\* p.turn(a, b)
Turn(a, b) ==
    /\ ~thrown
    /\ nops < MaxOps
    /\ pz' = turn(pz, a, b, build)
    /\ hist' = Remember(Op("turn", a, b))
    /\ nops' = nops + 1
    /\ UNCHANGED <<build, unitVars, thrown, mainVars>>

\* p.slice()
Slice ==
    /\ ~thrown
    /\ nops < MaxOps
    /\ LET r == slice(pz)
       IN /\ pz' = r.p
          /\ thrown' = r.thrown
    /\ hist' = Remember(Op("slice", 0, 0))
    /\ nops' = nops + 1
    /\ UNCHANGED <<build, unitVars, mainVars>>

\* p.move(a, b)
Move(a, b) ==
    /\ ~thrown
    /\ nops < MaxOps
    /\ LET r == move(pz, a, b, build)
       IN /\ pz' = r.p
          /\ thrown' = r.thrown
    /\ hist' = Remember(Op("move", a, b))
    /\ nops' = nops + 1
    /\ UNCHANGED <<build, unitVars, mainVars>>

NextPuzzle ==
    \/ \E ab \in TurnPairs : Turn(ab[1], ab[2])
    \/ Slice
    \/ \E ab \in TurnPairs : Move(ab[1], ab[2])

SpecPuzzle == InitPuzzle /\ [][NextPuzzle]_vars

\* ------------------------------------------------------------------------
\* Spec: the program, main and the tasks it spawns.

\* The Puzzle and move list main passes to solveMultithread on a start
\* configuration: the script run to its end (or to the move that throws).
RECURSIVE RunScript(_, _, _, _)
RunScript(p, moves, todo, ovf) ==
    IF todo = <<>> THEN [thrown |-> FALSE, p |-> p, moves |-> moves]
    ELSE LET r == moveLogged(p, moves, Head(todo)[1], Head(todo)[2], ovf)
         IN IF r.thrown THEN r ELSE RunScript(r.p, r.moves, Tail(todo), ovf)

\* The searches the runs of Inputs make, computed once: what each task's
\* lambda ends in, by its captures, and what solve(start, baseMoves, 0)
\* ends in.
SearchStarts ==
    { [s |-> RunScript(in.puzzle, <<>>, in.script, ovf), ovf |-> ovf] :
        in \in Inputs, ovf \in ShiftOverflows }

TaskKeys ==
    { [topNext |-> turn(k.s.p, MOVE(a), 0, k.ovf), a |-> a,
       moves |-> k.s.moves, ovf |-> k.ovf] :
        k \in SearchStarts, a \in TaskIds }

TaskTable ==
    { [key |-> k, r |-> taskRun(k.topNext, k.a, k.moves, k.ovf)] : k \in TaskKeys }

taskResult(topNext, a, moves, ovf) ==
    LET k == [topNext |-> topNext, a |-> a, moves |-> moves, ovf |-> ovf]
    IN (CHOOSE e \in TaskTable : e.key = k).r

\* formatMoves on what the tasks of these runs find, computed once.
FormatTable ==
    { [key |-> <<e.r.moves, e.r.endsOnSlice>>,
       f |-> formatMoves(e.r.moves, e.r.endsOnSlice)] :
        e \in { x \in TaskTable : x.r.kind = "found" } }

formatResult(moves, endsOnSlice) ==
    (CHOOSE e \in FormatTable : e.key = <<moves, endsOnSlice>>).f

SolveKeys == { [p |-> k.s.p, moves |-> k.s.moves, ovf |-> k.ovf] : k \in SearchStarts }

SolveTable ==
    { [key |-> k, r |-> solve(k.p, k.moves, 0, k.ovf)] : k \in SolveKeys }

solveResult(p, moves, ovf) ==
    LET k == [p |-> p, moves |-> moves, ovf |-> ovf]
    IN (CHOOSE e \in SolveTable : e.key = k).r

\* A lock that is granted whoever owns it.
CanAcquireAlways(m) == TRUE

\* A future that is ready whatever its task is doing.
ReadyAlways(pc) == TRUE

\* std::lock_guard lock(mutexLock) returns once no thread owns the mutex.
CanAcquire(m) == m = {}

\* fut.get() returns (or rethrows) once the task of the future has ended.
Ready(pc) == pc \in {"done", "thrown"}

Running == ~exited /\ mpc # "aborted"

Init ==
    /\ build \in ShiftOverflows
    /\ PuzzleIdle
    /\ \E in \in Inputs :
          /\ input = in.name
          /\ start = in.puzzle
          /\ script = in.script
    /\ baseMoves = <<>>
    /\ mpc = "scramble"
    /\ spawnA = 0
    /\ futures = <<>>
    /\ joinI = 0
    /\ tasks = [t \in TaskIds |-> NoTask]
    /\ mutexLock = {}
    /\ out = <<>>
    /\ exited = FALSE
    /\ UnitIdle

\* main, lines 162-173: the next start.move(baseMoves, t, b).  Nothing
\* catches the exception of slice(): the program aborts.
MainMove ==
    /\ Running
    /\ mpc = "scramble"
    /\ script # <<>>
    /\ LET r == moveLogged(start, baseMoves, Head(script)[1], Head(script)[2],
                           build)
       IN /\ start' = r.p
          /\ baseMoves' = r.moves
          /\ mpc' = IF r.thrown THEN "aborted" ELSE "scramble"
    /\ script' = Tail(script)
    /\ UNCHANGED <<build, unitVars, puzzleVars, input, spawnA, futures, joinI, tasks,
                   mutexLock, out, exited>>

\* main, line 175: the call of solveMultithread.
MainCall ==
    /\ Running
    /\ mpc = "scramble"
    /\ script = <<>>
    /\ mpc' = "spawn"
    /\ spawnA' = 0
    /\ UNCHANGED <<build, unitVars, puzzleVars, input, start, baseMoves, script, futures,
                   joinI, tasks, mutexLock, out, exited>>

\* solveMultithread, lines 126-151: one iteration of the loop over a.
MainSpawn ==
    /\ Running
    /\ mpc = "spawn"
    /\ spawnA < SIZE_OF_MOVES
    /\ LET topNext == turn(start, MOVE(spawnA), 0, build)
       IN IF ~canSliceTop(topNext)
          THEN UNCHANGED <<tasks, futures>>
          ELSE /\ tasks' = [tasks EXCEPT
                              ![spawnA] = Capture(topNext, spawnA, baseMoves)]
               /\ futures' = Append(futures, spawnA)
    /\ spawnA' = spawnA + 1
    /\ UNCHANGED <<build, unitVars, puzzleVars, input, start, baseMoves, script, mpc,
                   joinI, mutexLock, out, exited>>

\* solveMultithread, lines 153-155: fut.get() of the next future returns
\* once its task has ended, and rethrows what the task threw.
MainJoin ==
    /\ Running
    /\ mpc = "spawn"
    /\ spawnA = SIZE_OF_MOVES
    /\ joinI < Len(futures)
    /\ Ready(tasks[At(futures, joinI)].pc)
    /\ mpc' = IF tasks[At(futures, joinI)].pc = "thrown" THEN "aborted"
              ELSE "spawn"
    /\ joinI' = joinI + 1
    /\ UNCHANGED <<build, unitVars, puzzleVars, input, start, baseMoves, script, spawnA,
                   futures, tasks, mutexLock, out, exited>>

\* main, lines 177-178: solveMultithread has returned.
MainReport ==
    /\ Running
    /\ mpc = "spawn"
    /\ spawnA = SIZE_OF_MOVES
    /\ joinI = Len(futures)
    /\ out' = Append(out, NoSolutionFound)
    /\ mpc' = "returned"
    /\ exited' = TRUE
    /\ UNCHANGED <<build, unitVars, puzzleVars, input, start, baseMoves, script, spawnA,
                   futures, joinI, tasks, mutexLock>>

Main == MainMove \/ MainCall \/ MainSpawn \/ MainJoin \/ MainReport

\* The lambda of a task, lines 135-149, up to the first checkSolved test
\* that succeeds.  It touches nothing the other threads see (it works on
\* clones and copies), so it is one step: the task ends ("done"), throws
\* ("thrown"), or stands in checkSolved before the lock ("found").
TaskSearch(t) ==
    /\ Running
    /\ tasks[t].pc = "run"
    /\ LET r == taskResult(tasks[t].topNext, tasks[t].a, tasks[t].base, build)
       IN tasks' = [tasks EXCEPT
                      ![t].pc = CASE r.kind = "found" -> "found"
                                  [] r.kind = "fault" -> "thrown"
                                  [] OTHER -> "done",
                      ![t].moves = r.moves,
                      ![t].endsOnSlice = r.endsOnSlice]
    /\ UNCHANGED <<build, unitVars, puzzleVars, input, start, baseMoves, script, mpc,
                   spawnA, futures, joinI, mutexLock, out, exited>>

\* checkSolved, line 86: the lock is taken; nothing ever releases it.
TaskLock(t) ==
    /\ Running
    /\ tasks[t].pc = "found"
    /\ CanAcquire(mutexLock)
    /\ mutexLock' = mutexLock \cup {t}
    /\ tasks' = [tasks EXCEPT ![t].pc = "format"]
    /\ UNCHANGED <<build, unitVars, puzzleVars, input, start, baseMoves, script, mpc,
                   spawnA, futures, joinI, out, exited>>

\* formatMoves, line 67: the header goes to std::cout from inside
\* formatMoves.  After an undefined pop_back nothing is known of the rest.
TaskHeader(t) ==
    /\ Running
    /\ tasks[t].pc = "format"
    /\ LET f == formatResult(tasks[t].moves, tasks[t].endsOnSlice)
       IN IF f.ub
          THEN /\ out' = Append(out, Undefined(t))
               /\ tasks' = [tasks EXCEPT ![t].pc = "exit"]
          ELSE /\ out' = Append(out, Header(t, f.count))
               /\ tasks' = [tasks EXCEPT ![t].pc = "print"]
    /\ UNCHANGED <<build, unitVars, puzzleVars, input, start, baseMoves, script, mpc,
                   spawnA, futures, joinI, mutexLock, exited>>

\* checkSolved, line 87: the string formatMoves returned goes to std::cout.
TaskBody(t) ==
    /\ Running
    /\ tasks[t].pc = "print"
    /\ out' = Append(out, Body(t, formatResult(tasks[t].moves,
                                               tasks[t].endsOnSlice).text))
    /\ tasks' = [tasks EXCEPT ![t].pc = "exit"]
    /\ UNCHANGED <<build, unitVars, puzzleVars, input, start, baseMoves, script, mpc,
                   spawnA, futures, joinI, mutexLock, exited>>

\* checkSolved, line 88: std::exit(0) ends the process, every thread with it.
TaskExit(t) ==
    /\ Running
    /\ tasks[t].pc = "exit"
    /\ exited' = TRUE
    /\ tasks' = [tasks EXCEPT ![t].pc = "exited"]
    /\ UNCHANGED <<build, unitVars, puzzleVars, input, start, baseMoves, script, mpc,
                   spawnA, futures, joinI, mutexLock, out>>

Task(t) ==
    TaskSearch(t) \/ TaskLock(t) \/ TaskHeader(t) \/ TaskBody(t) \/ TaskExit(t)

Next == Main \/ \E t \in TaskIds : Task(t)

Spec == Init /\ [][Next]_vars

\* Every thread that can take a step eventually takes one.  The runs are
\* those of one build: main and the search turn by the amounts of
\* MainScript and MOVES only, none of them a multiple of 18 other than 0,
\* so no shift by 128 is ever evaluated and the runs of the two builds are
\* the same but for the value of `build`.
InitFair == Init /\ build = "zero"

FairSpec ==
    /\ InitFair
    /\ [][Next]_vars
    /\ WF_vars(Main)
    /\ \A t \in TaskIds : WF_vars(Task(t))

\* ------------------------------------------------------------------------
\* Properties of the Puzzle object (SpecPuzzle).

LastOp == hist[Len(hist)]

\* C7: rotation is a group action.  Whenever two turns in a row have been
\* applied to a Puzzle whose rows fit in 108 bits, each row is what one
\* turnRow by the sum of the two amounts makes of the row before them, and
\* a turn by 0 leaves the row as it was.
C7_TurnsCompose ==
    /\ (Len(hist) = 2 /\ hist[1].op = "turn" /\ hist[2].op = "turn"
            /\ Fits(hist[1].before))
         => /\ pz.top = turnRow(hist[1].before.top, hist[1].a + hist[2].a, build)
            /\ pz.bottom =
                   turnRow(hist[1].before.bottom, hist[1].b + hist[2].b, build)
    /\ (hist # <<>> /\ LastOp.op = "turn" /\ Fits(LastOp.before))
         => /\ (LastOp.a = 0 => pz.top = LastOp.before.top)
            /\ (LastOp.b = 0 => pz.bottom = LastOp.before.bottom)

\* C8: slice is an involution.  After a slice() that did not throw, on a
\* Puzzle whose rows fit in 108 bits, canSlice() holds again, and after two
\* such slices in a row the Puzzle has the rows it had before the first.
C8_SliceInvolution ==
    /\ (hist # <<>> /\ LastOp.op = "slice" /\ ~thrown /\ Fits(LastOp.before))
         => canSlice(pz)
    /\ (Len(hist) = 2 /\ hist[1].op = "slice" /\ hist[2].op = "slice"
            /\ ~thrown /\ Fits(hist[1].before))
         => pz = hist[1].before

\* C8 happens: two slices in a row, the first of which changed the Puzzle.
C8_SlicedTwice ==
    /\ Len(hist) = 2
    /\ hist[1].op = "slice"
    /\ hist[2].op = "slice"
    /\ ~thrown
    /\ Fits(hist[1].before)
    /\ hist[2].before # hist[1].before
    /\ pz = hist[1].before

\* C9: slice() on a Puzzle for which canSlice() is false, and move() whose
\* turn leaves canSlice() false, end in the logic error, and in no other
\* case; the slice() that throws leaves the rows as they were (after the
\* turn, for move), with no part of the swap made.
C9_FaultLeavesRows ==
    /\ (hist # <<>> /\ LastOp.op = "slice")
         => /\ thrown <=> ~canSlice(LastOp.before)
            /\ thrown => pz = LastOp.before
    /\ (hist # <<>> /\ LastOp.op = "move")
         => LET turned == turn(LastOp.before, LastOp.a, LastOp.b, build)
            IN /\ thrown <=> ~canSlice(turned)
               /\ thrown => pz = turned
    /\ thrown => (hist # <<>> /\ LastOp.op \in {"slice", "move"})

\* C9 happens: a move whose turn changed the Puzzle and whose slice threw.
C9_MoveThrew ==
    /\ thrown
    /\ LastOp.op = "move"
    /\ pz # LastOp.before
    /\ ~canSlice(pz)

\* C10: a slice() that does not throw exchanges exactly slots 0..8 between
\* the rows: slots 0..8 of top are the former slots 0..8 of bottom and the
\* reverse, and slots 9..17 of both rows are as before.
C10_SliceSwapsSlots0to8 ==
    (hist # <<>> /\ LastOp.op = "slice" /\ ~thrown)
      => /\ \A i \in 0 .. (SLOTS_PER_HALF - 1) :
               /\ SlotBits(pz.top, i) = SlotBits(LastOp.before.bottom, i)
               /\ SlotBits(pz.bottom, i) = SlotBits(LastOp.before.top, i)
         /\ \A i \in SLOTS_PER_HALF .. (SLOTS_PER_ROW - 1) :
               /\ SlotBits(pz.top, i) = SlotBits(LastOp.before.top, i)
               /\ SlotBits(pz.bottom, i) = SlotBits(LastOp.before.bottom, i)

\* C10 happens: a slice that exchanged slots holding different pieces.
C10_SliceExchanged ==
    /\ hist # <<>>
    /\ LastOp.op = "slice"
    /\ ~thrown
    /\ \E i \in 0 .. (SLOTS_PER_HALF - 1) :
          SlotBits(LastOp.before.top, i) # SlotBits(LastOp.before.bottom, i)
    /\ \E i \in SLOTS_PER_HALF .. (SLOTS_PER_ROW - 1) :
          SlotBits(pz.top, i) # SlotBits(pz.bottom, i)

\* ------------------------------------------------------------------------
\* Properties of the program (Spec, FairSpec).

\* The search has been entered: `start` and `baseMoves` are what main
\* passed to solveMultithread.
Searching == mpc \in {"spawn", "returned"}

\* Task t is in, or through, the branch of checkSolved that announces.
Announcing(t) == tasks[t].pc \in {"format", "print", "exit", "exited"}

\* Task t has passed a checkSolved test.
Succeeded(t) == tasks[t].pc = "found" \/ Announcing(t)

Announced == \E i \in DOMAIN out : out[i].what = "body"

Exhausted == \E i \in DOMAIN out : out[i].what = "nosolution"

Spawned == { At(futures, i) : i \in 0 .. (Len(futures) - 1) }

\* The list formatMoves makes of what task t found.
ListOf(t) == formatMoves(tasks[t].moves, tasks[t].endsOnSlice).list

TextOf(t) == formatMoves(tasks[t].moves, tasks[t].endsOnSlice).text

\* Re-applying a list of encoded moves to p: each is decoded and turned,
\* and a slice follows each turn, the last one too iff `sliceLast`.
RECURSIVE Replay(_, _, _, _)
Replay(p, list, sliceLast, ovf) ==
    IF list = <<>> THEN [thrown |-> FALSE, p |-> p]
    ELSE LET d == decodeMove(Head(list))
             turned == turn(p, d[1], d[2], ovf)
         IN IF Len(list) = 1 /\ ~sliceLast
            THEN [thrown |-> FALSE, p |-> turned]
            ELSE LET s == slice(turned)
                 IN IF s.thrown THEN s
                    ELSE Replay(s.p, Tail(list), sliceLast, ovf)

ReplaySolves(p, list, sliceLast, ovf) ==
    LET r == Replay(p, list, sliceLast, ovf)
    IN ~r.thrown /\ (isSolved(r.p) \/ solvedCheck(r.p))

\* C1: end to end.  When main, from the solved Puzzle and its own
\* scramble, has announced a solution, re-applying the announced list to
\* the scrambled Puzzle, a slice after each turn (or after each but the
\* last), gives a Puzzle that isSolved(), or at least passes cubeShape()
\* and isRowOrientationSolved().
C1_AnnouncedListSolvesScramble ==
    \A t \in TaskIds :
        (input = "main" /\ tasks[t].pc = "exited")
          => \/ ReplaySolves(start, ListOf(t), TRUE, build)
             \/ ReplaySolves(start, ListOf(t), FALSE, build)

\* C2: the search never triggers the slice fault.  From a start Puzzle
\* whose rows fit in 108 bits no task ends by the logic error of slice(),
\* whatever the other tasks have done, main is not aborted by one, and
\* solve(start, baseMoves, 0) does not end by it either.
C2_NoSliceFault ==
    (Searching /\ Fits(start))
      => /\ \A t \in TaskIds : tasks[t].pc # "thrown"
         /\ mpc # "aborted"
         /\ solveResult(start, baseMoves, build).kind # "fault"

\* C2 happens: a task has searched its whole subtree, slicing at every
\* node of it, and ended; another has passed a checkSolved test.
C2_SearchedThroughSlices ==
    /\ Searching
    /\ Fits(start)
    /\ \E t \in TaskIds : tasks[t].pc = "done"
    /\ \E t \in TaskIds : Succeeded(t)

\* C3: the announcement is mutually exclusive and one-shot.  At most one
\* task is ever inside the announcing branch of checkSolved, and std::cout
\* holds at most that one task's header followed by that same task's
\* text: nothing of another task, and nothing of main, is between them or
\* after them.
C3_OneAnnouncer ==
    /\ Cardinality({ t \in TaskIds : Announcing(t) }) <= 1
    /\ \A i \in DOMAIN out :
          out[i].by # MainThread
            => /\ \A t \in TaskIds : out[i].by = TaskThread(t) => Announcing(t)
               /\ \A j \in DOMAIN out : out[j].by = out[i].by
               /\ out[i].what = (IF i = 1 THEN "header" ELSE "body")
    /\ Len(out) <= 2

\* C3 happens: one task has announced and ended the process while another,
\* which had passed checkSolved too, was kept at the lock.
C3_OtherTaskKeptOut ==
    \E t, u \in TaskIds :
        /\ tasks[t].pc = "exited"
        /\ tasks[u].pc = "found"
        /\ Len(out) = 2

\* The message of exhaustion may be there: every task spawned has ended,
\* and none has passed a checkSolved test.
AllTasksFailed ==
    /\ mpc = "returned"
    /\ \A t \in Spawned : tasks[t].pc = "done"
    /\ \A t \in TaskIds : ~Succeeded(t)

\* The process has ended on an announcement: one header and one text.
EndedAnnounced ==
    /\ exited
    /\ Len(out) = 2
    /\ out[1].what = "header"
    /\ out[2].what = "body"

\* The process has ended on the message of exhaustion alone.
EndedExhausted == exited /\ out = << NoSolutionFound >>

\* C4: every run, its threads scheduled fairly, ends in exactly one of two
\* outcomes: one announced solution, or "No solution found." and nothing
\* else.  The two are never both there; the message of exhaustion is only
\* there once every spawned task has ended with no checkSolved test
\* passed.
C4_OneTerminalOutcome ==
    /\ [](~(Announced /\ Exhausted))
    /\ [](Exhausted => AllTasksFailed)
    /\ [](~(EndedAnnounced /\ EndedExhausted))
    /\ <>[](EndedAnnounced \/ EndedExhausted)

\* C4 happens: tasks were spawned, all of them ended, and the run ended on
\* the message of exhaustion.
C4_RanToExhaustion == EndedExhausted /\ Len(futures) > 1

\* The number of moves a search result adds to the base moves.
SearchMoves(r, base) == Len(r.moves) - Len(base)

\* C5: parallelism does not change the outcome.  Once a task has passed a
\* checkSolved test, solve(start, baseMoves, 0) on the same Puzzle and
\* moves finds a solution too, and both use at least one and at most as
\* many search moves as the depth bound lets through (depths 0 to
\* MaxDepth, 9 with the program's bound of 8); once exhaustion is
\* reported, solve(start, baseMoves, 0) returns without a solution too.
C5_SameOutcomeAsSequential ==
    Searching =>
      LET seq == solveResult(start, baseMoves, build)
      IN /\ \A t \in TaskIds :
               Succeeded(t)
                 => /\ seq.kind = "found"
                    /\ SearchMoves(seq, baseMoves) \in 1 .. (MaxDepth + 1)
                    /\ SearchMoves(tasks[t], baseMoves) \in 1 .. (MaxDepth + 1)
         /\ Exhausted => seq.kind = "none"

\* C5 happens: the parallel search has announced a solution that is not
\* the one solve(start, baseMoves, 0) finds.
C5_AnnouncedAnotherSolution ==
    /\ Searching
    /\ solveResult(start, baseMoves, build).kind = "found"
    /\ \E t \in TaskIds :
          /\ tasks[t].pc = "exited"
          /\ tasks[t].moves # solveResult(start, baseMoves, build).moves

FirstSolutionOf(a) ==
    taskResult(turn(start, MOVE(a), 0, build), a, baseMoves, build)

MaxTurns == 19

TurnArgs == (-MaxTurns) .. MaxTurns

\* The second amount of the calls of turn.
TurnSeconds == {0, 3, -3, 9, SLOTS_PER_ROW}

\* The Puzzles the calls are made on.
CallPuzzles ==
    StartPuzzles \cup
        { turn(DefaultPuzzle, 3, 0, "zero"), turn(DefaultPuzzle, 1, 0, "zero") }

\* The match rows and the masks passed to isSolvedByMatches, top and bottom.
MatchPairs ==
    { Puzzle(SOLVED_TOP, SOLVED_BOTTOM), Puzzle({}, ROW_MASK),
      Puzzle(ROW_MASK, {}) }
MaskPairs ==
    { Puzzle({}, {}), Puzzle(ROW_MASK, ROW_MASK), Puzzle(HALF_MASK, {}) }

Calls ==
    { [NoCall EXCEPT !.fn = "wrapPositive", !.n = n] : n \in TurnArgs }
      \cup { [NoCall EXCEPT !.fn = "wrapNegative", !.n = n] : n \in TurnArgs }
      \cup { [NoCall EXCEPT !.fn = "encodeMove", !.n = n, !.m = m] :
                n \in TurnArgs, m \in TurnArgs }
      \cup { [NoCall EXCEPT !.fn = "turn", !.p = p, !.n = n, !.m = m] :
                p \in CallPuzzles, n \in TurnArgs, m \in TurnSeconds }
      \cup { [NoCall EXCEPT !.fn = "turn", !.p = p, !.n = 0, !.m = m] :
                p \in CallPuzzles, m \in TurnArgs }
      \cup { [NoCall EXCEPT !.fn = "print", !.p = p] : p \in CallPuzzles }
      \cup { [NoCall EXCEPT !.fn = "isSolvedByMatches", !.p = p,
                            !.match = mt, !.mask = mk] :
                p \in CallPuzzles, mt \in MatchPairs, mk \in MaskPairs }

InitCalls ==
    /\ build \in ShiftOverflows
    /\ PuzzleIdle
    /\ MainIdle
    /\ call \in Calls
    /\ ret = NoRet
    /\ FormatIdle
    /\ SolveIdle
    /\ CheckIdle

\* The call returns r.
Return(fn, r) ==
    /\ call.fn = fn
    /\ ~ret.done
    /\ ret' = [r EXCEPT !.done = TRUE]
    /\ UNCHANGED <<build, puzzleVars, mainVars, call, formatVars, solveVars, checkVars>>

CallWrapPositive ==
    Return("wrapPositive", [NoRet EXCEPT !.i = wrapPositive(call.n)])

CallWrapNegative ==
    Return("wrapNegative", [NoRet EXCEPT !.i = wrapNegative(call.n)])

\* decodeMove(encodeMove(n, m)): i is the encoded move, pair the decoded one.
CallEncodeMove ==
    Return("encodeMove",
           [NoRet EXCEPT !.i = encodeMove(call.n, call.m),
                         !.pair = decodeMove(encodeMove(call.n, call.m))])

\* p.turn(n, m): the Puzzle after it.
CallTurn ==
    Return("turn", [NoRet EXCEPT !.p = turn(call.p, call.n, call.m, build)])

\* p.print(): the four predicates.
CallPrint ==
    Return("print", [NoRet EXCEPT !.flags = printFlags(call.p)])

CallIsSolvedByMatches ==
    Return("isSolvedByMatches",
           [NoRet EXCEPT !.b = isSolvedByMatches(call.p, call.match.top,
                                                 call.mask.top,
                                                 call.match.bottom,
                                                 call.mask.bottom)])

NextCalls ==
    \/ CallWrapPositive
    \/ CallWrapNegative
    \/ CallEncodeMove
    \/ CallTurn
    \/ CallPrint
    \/ CallIsSolvedByMatches

SpecCalls == InitCalls /\ [][NextCalls]_vars

\* The call of fn has returned.
Returned(fn) == call.fn = fn /\ ret.done

\* C11, as claimed: after any turn, slice or move on a Puzzle, all bits
\* above position 107 of both rows are zero.
C11_HighBitsZero == hist # <<>> => Fits(pz)

\* a and b differ by a multiple of SLOTS_PER_ROW.
Congruent(a, b) == (a - b) % SLOTS_PER_ROW = 0

C13_EncodeDecodeRoundTrip ==
    Returned("encodeMove")
      => /\ ret.pair = <<wrapPositive(call.n), wrapPositive(call.m)>>
         /\ (call.n \in 0 .. (SLOTS_PER_ROW - 1)
               /\ call.m \in 0 .. (SLOTS_PER_ROW - 1))
              => ret.pair = <<call.n, call.m>>
         /\ (ret.i = 0) <=> (Congruent(call.n, 0) /\ Congruent(call.m, 0))

\* C13 happens: a negative top amount and a bottom amount of 17, which
\* needs the fifth bit of its field, were encoded and decoded.
C13_EncodedNegativeAndWide ==
    /\ Returned("encodeMove")
    /\ call.n < 0
    /\ call.m = SLOTS_PER_ROW - 1
    /\ ret.pair[1] # call.n
    /\ ret.pair[2] = call.m
    /\ ret.i > Pow2(SLOT_SIZE)

\* The match rows and the masks of a call are those given.
Matched(mt, mk) == call.match = mt /\ call.mask = mk

\* C14, as claimed: with both masks zero isSolvedByMatches is true exactly
\* when cubeShape() and isRowOrientationSolved() hold, whatever the match
\* rows; with both masks ROW_MASK and the solved rows as match rows it
\* returns what isSolved() returns, for every Puzzle.
C14_MatchesAgreeWithIsSolved ==
    Returned("isSolvedByMatches")
      => /\ call.mask = Puzzle({}, {})
              => (ret.b <=> (cubeShape(call.p) /\ isRowOrientationSolved(call.p)))
         /\ Matched(Puzzle(SOLVED_TOP, SOLVED_BOTTOM), Puzzle(ROW_MASK, ROW_MASK))
              => (ret.b <=> isSolved(call.p))

\* The one row turned by the call, by an amount of MOVES that is not 0.
OneRowTurned ==
    LET amounts == { MOVE(a) : a \in 0 .. (SIZE_OF_MOVES - 1) } \ {0}
    IN \/ call.n \in amounts /\ call.m = 0
       \/ call.n = 0 /\ call.m \in amounts

\* C15: the default-constructed Puzzle passes cubeShape(), canSlice(),
\* isRowOrientationSolved() and isSolved(), and after a turn of one of its
\* rows by an amount of MOVES other than 0 isSolved() is false.
C15_SolvedUntilTurned ==
    /\ (Returned("print") /\ call.p = DefaultPuzzle)
         => ret.flags = <<TRUE, TRUE, TRUE, TRUE>>
    /\ (Returned("turn") /\ call.p = DefaultPuzzle /\ OneRowTurned)
         => ~isSolved(ret.p)

\* C15 happens: the bottom row alone of the default Puzzle was turned by 17.
C15_BottomTurnedBy17 ==
    /\ Returned("turn")
    /\ call.p = DefaultPuzzle
    /\ call.n = 0
    /\ call.m = 17
    /\ ret.p.top = SOLVED_TOP
    /\ ret.p.bottom # SOLVED_BOTTOM

\* C16: wrapPositive(n) is, for negative, zero and positive n, the value of
\* [0, 18) congruent to n modulo 18, and wrapPositive(n + 18) =
\* wrapPositive(n).
C16_WrapPositiveInRange ==
    Returned("wrapPositive")
      => /\ ret.i \in 0 .. (SLOTS_PER_ROW - 1)
         /\ Congruent(ret.i, call.n)
         /\ wrapPositive(call.n + SLOTS_PER_ROW) = ret.i
         /\ wrapPositive(call.n - SLOTS_PER_ROW) = ret.i

\* C16 happens: a negative amount that is no multiple of 18 was wrapped.
C16_WrappedNegative ==
    /\ Returned("wrapPositive")
    /\ call.n < 0
    /\ ret.i > 0
    /\ ret.i = call.n + 2 * SLOTS_PER_ROW

\* C17, as claimed: for a Puzzle whose rows fit in 108 bits,
\* isRowOrientationSolved() has the same value before and after turn(a, b).
C17_OrientationSurvivesTurn ==
    (Returned("turn") /\ Fits(call.p))
      => (isRowOrientationSolved(ret.p) <=> isRowOrientationSolved(call.p))

\* ------------------------------------------------------------------------
\* SpecFormat: one call of formatMoves, followed through its three parts.

\* The longest list passed to formatMoves.
MaxLen == 4

\* The entries of the lists: the no-op, three results of encodeMove (two of
\* them inverse to each other, one inverse to itself), and an entry that
\* encodeMove does not return, whose bottom field is 18.
FormatEntries ==
    { 0, encodeMove(3, 0), encodeMove(-3, 0), encodeMove(9, 9), SLOTS_PER_ROW }

RECURSIVE ListsUpTo(_)
ListsUpTo(n) ==
    IF n = 0 THEN { <<>> }
    ELSE LET shorter == ListsUpTo(n - 1)
         IN shorter \cup
              { Append(l, e) : l \in { x \in shorter : Len(x) = n - 1 },
                               e \in FormatEntries }

InitFormat ==
    /\ build = "zero"
    /\ PuzzleIdle
    /\ MainIdle
    /\ CallIdle
    /\ CheckIdle
    /\ fmMoves \in ListsUpTo(MaxLen)
    /\ fmEndsOnSlice \in BOOLEAN
    /\ fmPc = "collapse"
    /\ fmIgnoreZeroes = <<>>
    /\ previousList = <<>>
    /\ fmPasses = 0
    /\ fmOut = <<>>
    /\ SolveIdle

\* Lines 17-39: the slice-parity loop, and the copy to previousList.
FormatCollapse ==
    /\ fmPc = "collapse"
    /\ fmIgnoreZeroes' = ignoreZeroesLoop(fmMoves, 0, 0, <<>>)
    /\ previousList' = fmIgnoreZeroes'
    /\ fmPc' = "cancel"
    /\ UNCHANGED <<build, puzzleVars, mainVars, callVars, fmMoves,
                   fmEndsOnSlice, fmPasses, fmOut, solveVars, checkVars>>

\* Lines 40-64: one iteration of the while loop.  pop_back() on an empty
\* vector is undefined: nothing is known of what follows it.
FormatPass ==
    /\ fmPc = "cancel"
    /\ LET r == cancelPass(previousList, 0, 0, <<>>, TRUE, FALSE)
       IN /\ previousList' = r.list
          /\ fmPc' = IF r.ub THEN "undefined"
                     ELSE IF r.madeNoChange THEN "render"
                     ELSE "cancel"
    /\ fmPasses' = fmPasses + 1
    /\ UNCHANGED <<build, puzzleVars, mainVars, callVars, fmMoves,
                   fmEndsOnSlice, fmIgnoreZeroes, fmOut, solveVars, checkVars>>

\* Lines 66-81: the text, and the return.
FormatRender ==
    /\ fmPc = "render"
    /\ fmOut' = render(previousList, 0, fmEndsOnSlice, <<>>)
    /\ fmPc' = "returned"
    /\ UNCHANGED <<build, puzzleVars, mainVars, callVars, fmMoves,
                   fmEndsOnSlice, fmIgnoreZeroes, previousList, fmPasses,
                   solveVars, checkVars>>

NextFormat == FormatCollapse \/ FormatPass \/ FormatRender

SpecFormat == InitFormat /\ [][NextFormat]_vars

\* The first loop of formatMoves has ended.
Collapsed == fmPc \in {"cancel", "undefined", "render", "returned"}

\* The length of the run of zero entries a list starts with.
RECURSIVE ZeroRun(_)
ZeroRun(l) == IF l = <<>> \/ Head(l) # 0 THEN 0 ELSE 1 + ZeroRun(Tail(l))

\* l without its first n entries.
Drop(l, n) == SubSeq(l, n + 1, Len(l))

\* The collapse as claimed: after an odd run of no-ops the real move
\* before the run is there once more.
RECURSIVE ReEmitPrior(_, _)
ReEmitPrior(l, prior) ==
    IF l = <<>> THEN <<>>
    ELSE IF Head(l) # 0 THEN <<Head(l)>> \o ReEmitPrior(Tail(l), Head(l))
    ELSE LET k == ZeroRun(l)
         IN (IF k % 2 = 1 THEN <<prior>> ELSE <<>>)
              \o ReEmitPrior(Drop(l, k), prior)

\* The collapse as made: an odd run of no-ops leaves one no-op entry, an
\* even run leaves nothing.
RECURSIVE KeepOneNoOp(_)
KeepOneNoOp(l) ==
    IF l = <<>> THEN <<>>
    ELSE IF Head(l) # 0 THEN <<Head(l)>> \o KeepOneNoOp(Tail(l))
    ELSE LET k == ZeroRun(l)
         IN (IF k % 2 = 1 THEN <<0>> ELSE <<>>) \o KeepOneNoOp(Drop(l, k))

\* C18, as claimed: on a list that starts with a real move, when a real
\* move follows an odd run of no-ops the collapsed list has the real move
\* before the run once more before the new move, and when the list ends on
\* an odd run of no-ops the last real move is appended once more.
C18_ReEmitsPriorRealMove ==
    (Collapsed /\ fmMoves # <<>> /\ Head(fmMoves) # 0)
      => fmIgnoreZeroes = ReEmitPrior(fmMoves, Head(fmMoves))

\* C18, amended: what the collapsed list receives for an odd run of no-ops,
\* before the next real move or at the end of the list, is one no-op
\* (zero) entry, the entry moves[i - 1] that ends the run, and never a real
\* move; an even run leaves nothing, and the real moves stay in order.
C18_OddRunLeavesOneNoOp ==
    Collapsed => fmIgnoreZeroes = KeepOneNoOp(fmMoves)

\* C18 happens: a real move, three no-ops and another real move were
\* collapsed to the two real moves with one no-op between them.
C18_CollapsedOddRun ==
    /\ Collapsed
    /\ Len(fmMoves) = 4
    /\ fmMoves[1] # 0
    /\ fmMoves[2] = 0
    /\ fmMoves[3] = 0
    /\ fmMoves[4] = 0
    /\ fmIgnoreZeroes = << fmMoves[1], 0 >>

\* The decoded amounts of y are the negation modulo 18 of those of x.
Negation(x, y) ==
    /\ Congruent(decodeMove(x)[1] + decodeMove(y)[1], 0)
    /\ Congruent(decodeMove(x)[2] + decodeMove(y)[2], 0)

SolveNodes ==
    { [p |-> k.s.p, moves |-> k.s.moves, ovf |-> k.ovf] : k \in SearchStarts }
      \cup { [p |-> DefaultPuzzle, moves |-> <<>>, ovf |-> o] :
                o \in ShiftOverflows }

InitSolve ==
    /\ PuzzleIdle
    /\ MainIdle
    /\ CallIdle
    /\ FormatIdle
    /\ CheckIdle
    /\ \E k \in SolveNodes :
          /\ build = k.ovf
          /\ svPuzzle = k.p
          /\ svMoves = k.moves
    /\ svDepth \in {MaxDepth, MaxDepth + 1}
    /\ svPc = "entry"
    /\ svA = 0
    /\ svB = 0
    /\ svTopNext = DefaultPuzzle
    /\ svBottomNext = DefaultPuzzle
    /\ svNextMoves = <<>>
    /\ svEvents = <<>>
    /\ svRecorded = {}

\* One thing the body of the inner loop did: the a and b it did it for,
\* and the Puzzle and the moves it did it with.
Event(name, endsOnSlice, p, moves) ==
    [ev |-> name, at |-> <<svA, svB>>, endsOnSlice |-> endsOnSlice, p |-> p,
     moves |-> moves]

\* Lines 93-97: the test of the depth, and the start of the outer loop.
SvEnter ==
    /\ svPc = "entry"
    /\ svPc' = IF svDepth > MaxDepth THEN "returned" ELSE "top"
    /\ UNCHANGED <<build, puzzleVars, mainVars, callVars, formatVars, checkVars,
                   svPuzzle, svMoves, svDepth, svA, svB, svTopNext,
                   svBottomNext, svNextMoves, svEvents, svRecorded>>

\* Lines 97-105: one test of the outer loop, the turn of the top row and
\* the test of canSliceTop().
SvTopTurn ==
    /\ svPc = "top"
    /\ IF svA >= SIZE_OF_MOVES
       THEN /\ svPc' = "returned"
            /\ UNCHANGED <<svA, svB, svTopNext>>
       ELSE LET topNext == turn(svPuzzle, MOVE(svA), 0, build)
            IN IF ~canSliceTop(topNext)
               THEN /\ svA' = svA + 1
                    /\ UNCHANGED <<svPc, svB, svTopNext>>
               ELSE /\ svTopNext' = topNext
                    /\ svB' = 0
                    /\ svPc' = "bottom"
                    /\ UNCHANGED svA
    /\ UNCHANGED <<build, puzzleVars, mainVars, callVars, formatVars, checkVars,
                   svPuzzle, svMoves, svDepth, svBottomNext, svNextMoves,
                   svEvents, svRecorded>>

\* Lines 105-111: one test of the inner loop, the turn of the bottom row
\* and the test of canSliceBottom().
SvBottomTurn ==
    /\ svPc = "bottom"
    /\ IF svB >= SIZE_OF_MOVES
       THEN /\ svA' = svA + 1
            /\ svPc' = "top"
            /\ UNCHANGED <<svB, svBottomNext, svEvents>>
       ELSE LET bottomNext == turn(svTopNext, 0, MOVE(svB), build)
            IN IF ~canSliceBottom(bottomNext)
               THEN /\ svB' = svB + 1
                    /\ UNCHANGED <<svPc, svA, svBottomNext, svEvents>>
               ELSE /\ svBottomNext' = bottomNext
                    /\ svEvents' = <<>>
                    /\ svPc' = "record"
                    /\ UNCHANGED <<svA, svB>>
    /\ UNCHANGED <<build, puzzleVars, mainVars, callVars, formatVars, checkVars,
                   svPuzzle, svMoves, svDepth, svTopNext, svNextMoves,
                   svRecorded>>

\* Lines 113-114: the encoded move is appended to a copy of moves.
SvRecord ==
    /\ svPc = "record"
    /\ svNextMoves' = Append(svMoves, encodeMove(MOVE(svA), MOVE(svB)))
    /\ svRecorded' = svRecorded \cup { <<svA, svB>> }
    /\ svEvents' = Append(svEvents,
                          Event("record", FALSE, svBottomNext, svNextMoves'))
    /\ svPc' = "checkPre"
    /\ UNCHANGED <<build, puzzleVars, mainVars, callVars, formatVars, checkVars,
                   svPuzzle, svMoves, svDepth, svA, svB, svTopNext,
                   svBottomNext>>

\* Line 115: checkSolved(bottomNext, nextMoves, false), which ends the
\* process when its test succeeds.
SvCheckPre ==
    /\ svPc = "checkPre"
    /\ svEvents' = Append(svEvents,
                          Event("check", FALSE, svBottomNext, svNextMoves))
    /\ svPc' = IF solvedCheck(svBottomNext) THEN "exited" ELSE "slice"
    /\ UNCHANGED <<build, puzzleVars, mainVars, callVars, formatVars, checkVars,
                   svPuzzle, svMoves, svDepth, svA, svB, svTopNext,
                   svBottomNext, svNextMoves, svRecorded>>

\* Line 116: bottomNext.slice().
SvSlice ==
    /\ svPc = "slice"
    /\ LET r == slice(svBottomNext)
       IN /\ svBottomNext' = r.p
          /\ svPc' = IF r.thrown THEN "thrown" ELSE "checkPost"
          /\ svEvents' = IF r.thrown THEN svEvents
                         ELSE Append(svEvents,
                                     Event("slice", FALSE, r.p, svNextMoves))
    /\ UNCHANGED <<build, puzzleVars, mainVars, callVars, formatVars, checkVars,
                   svPuzzle, svMoves, svDepth, svA, svB, svTopNext,
                   svNextMoves, svRecorded>>

\* Line 117: checkSolved(bottomNext, nextMoves, true).
SvCheckPost ==
    /\ svPc = "checkPost"
    /\ svEvents' = Append(svEvents,
                          Event("check", TRUE, svBottomNext, svNextMoves))
    /\ svPc' = IF solvedCheck(svBottomNext) THEN "exited" ELSE "recurse"
    /\ UNCHANGED <<build, puzzleVars, mainVars, callVars, formatVars, checkVars,
                   svPuzzle, svMoves, svDepth, svA, svB, svTopNext,
                   svBottomNext, svNextMoves, svRecorded>>

\* Lines 118-119: solve(bottomNext, nextMoves, depth + 1), which returns at
\* line 94 as depth + 1 is above the bound, and the next b.
SvRecurse ==
    /\ svPc = "recurse"
    /\ svDepth + 1 > MaxDepth
    /\ svEvents' = Append(svEvents,
                          Event("solve", FALSE, svBottomNext, svNextMoves))
    /\ svB' = svB + 1
    /\ svPc' = "bottom"
    /\ UNCHANGED <<build, puzzleVars, mainVars, callVars, formatVars, checkVars,
                   svPuzzle, svMoves, svDepth, svA, svTopNext, svBottomNext,
                   svNextMoves, svRecorded>>

NextSolve ==
    \/ SvEnter
    \/ SvTopTurn
    \/ SvBottomTurn
    \/ SvRecord
    \/ SvCheckPre
    \/ SvSlice
    \/ SvCheckPost
    \/ SvRecurse

SpecSolve == InitSolve /\ [][NextSolve]_vars

\* The body of the inner loop is at, or past, the recording of a move.
BodyPcs == {"checkPre", "slice", "checkPost", "recurse", "exited", "thrown"}
InBody == svPc \in BodyPcs

\* The inner loop has been through the pair <<a, b>>: its turns were made
\* and tested.
Tested(a, b) ==
    \/ svPc = "returned" /\ svDepth <= MaxDepth
    \/ a < svA /\ svPc \in {"top", "bottom", "record"} \cup BodyPcs
    \/ a = svA /\ b < svB /\ svPc \in {"bottom", "record"} \cup BodyPcs
    \/ a = svA /\ b = svB /\ InBody

\* The names of the events of this b, and the order the body has them in.
EventNames == [i \in DOMAIN svEvents |-> svEvents[i].ev]
BodyOrder == <<"record", "check", "slice", "check", "solve">>

CheckCall(p, moves, endsOnSlice) ==
    [p |-> p, moves |-> moves, endsOnSlice |-> endsOnSlice]

\* What a search ends in (the kind of NoResult, Found and Fault) and the
\* calls of checkSolved it made.
Log(kind, calls) == [kind |-> kind, calls |-> calls]

\* A list that records the move twice.
nextMovesTwice(moves, a, b) ==
    Append(Append(moves, encodeMove(MOVE(a), MOVE(b))),
           encodeMove(MOVE(a), MOVE(b)))

\* A list that records the turns of the two rows the other way round.
nextMovesSwapped(moves, a, b) == Append(moves, encodeMove(MOVE(b), MOVE(a)))

\* Lines 113-114 (143-144 in the lambda): nextMoves.
nextMovesOf(moves, a, b) == Append(moves, encodeMove(MOVE(a), MOVE(b)))

RECURSIVE solveLog(_, _, _, _)
RECURSIVE solveTopLog(_, _, _, _, _)
RECURSIVE solveBottomLog(_, _, _, _, _, _)

\* Lines 106-118: the body of the inner loop for one b.
solveVisitLog(topNext, a, b, moves, depth, ovf) ==
    LET bottomNext == turn(topNext, 0, MOVE(b), ovf)
    IN IF ~canSliceBottom(bottomNext) THEN Log("none", <<>>)
       ELSE LET nextMoves == nextMovesOf(moves, a, b)
                pre == CheckCall(bottomNext, nextMoves, FALSE)
            IN IF solvedCheck(bottomNext) THEN Log("found", <<pre>>)
               ELSE LET s == slice(bottomNext)
                    IN IF s.thrown THEN Log("fault", <<pre>>)
                       ELSE LET post == CheckCall(s.p, nextMoves, TRUE)
                            IN IF solvedCheck(s.p)
                               THEN Log("found", <<pre, post>>)
                               ELSE LET r == solveLog(s.p, nextMoves,
                                                      depth + 1, ovf)
                                    IN Log(r.kind, <<pre, post>> \o r.calls)

\* Lines 105-119: the inner loop, from b on.
solveBottomLog(topNext, a, b, moves, depth, ovf) ==
    IF b >= SIZE_OF_MOVES THEN Log("none", <<>>)
    ELSE LET r == solveVisitLog(topNext, a, b, moves, depth, ovf)
         IN IF r.kind # "none" THEN r
            ELSE LET rest == solveBottomLog(topNext, a, b + 1, moves, depth,
                                            ovf)
                 IN Log(rest.kind, r.calls \o rest.calls)

\* Lines 97-120: the outer loop, from a on.
solveTopLog(p, a, moves, depth, ovf) ==
    IF a >= SIZE_OF_MOVES THEN Log("none", <<>>)
    ELSE LET topNext == turn(p, MOVE(a), 0, ovf)
         IN IF ~canSliceTop(topNext)
            THEN solveTopLog(p, a + 1, moves, depth, ovf)
            ELSE LET r == solveBottomLog(topNext, a, 0, moves, depth, ovf)
                 IN IF r.kind # "none" THEN r
                    ELSE LET rest == solveTopLog(p, a + 1, moves, depth, ovf)
                         IN Log(rest.kind, r.calls \o rest.calls)

\* solve(puzzle, moves, depth); the literal 8 of line 93 is MaxDepth.
solveLog(p, moves, depth, ovf) ==
    IF depth > MaxDepth THEN Log("none", <<>>)
    ELSE solveTopLog(p, 0, moves, depth, ovf)

\* Lines 135-149: the lambda of a task.  Its loop is the inner loop of
\* solve word for word, with `solve(bottomNext, nextMoves, 1)` where solve
\* has `depth + 1`: the inner loop at depth 0.
taskLog(topNext, a, moves, ovf) == solveBottomLog(topNext, a, 0, moves, 0, ovf)

\* The searches followed: from the start and the baseMoves main makes by
\* its start.move calls (lines 159-173), the lambda of each task and
\* solve(start, baseMoves, 0).
MainStart(ovf) == RunScript(DefaultPuzzle, <<>>, MainScript, ovf)

Searches ==
    { [fn |-> "task", p |-> turn(MainStart(ovf).p, MOVE(a), 0, ovf), a |-> a,
       moves |-> MainStart(ovf).moves, ovf |-> ovf] :
        a \in TaskIds, ovf \in ShiftOverflows }
    \cup { [fn |-> "solve", p |-> MainStart(ovf).p, a |-> 0,
            moves |-> MainStart(ovf).moves, ovf |-> ovf] :
              ovf \in ShiftOverflows }

\* What each of them passes to checkSolved, computed once.
LogTable ==
    { [key |-> k,
       log |-> IF k.fn = "task" THEN taskLog(k.p, k.a, k.moves, k.ovf)
               ELSE solveLog(k.p, k.moves, 0, k.ovf)] :
        k \in { x \in Searches : x.fn = "solve" \/ canSliceTop(x.p) } }

logOf(search, ovf) ==
    (CHOOSE e \in LogTable :
        e.key = [fn |-> search.fn, p |-> search.p, a |-> search.a,
                 moves |-> search.moves, ovf |-> ovf]).log

InitChecks ==
    /\ PuzzleIdle
    /\ MainIdle
    /\ CallIdle
    /\ FormatIdle
    /\ SolveIdle
    /\ \E e \in LogTable :
          /\ build = e.key.ovf
          /\ ckSearch = [fn |-> e.key.fn, p |-> e.key.p, a |-> e.key.a,
                         moves |-> e.key.moves]
    /\ ckPc = "searching"
    /\ ckAt = 0
    /\ ckCall = NoCheck

\* Lines 115, 117, 145, 147: the search reaches its next call of
\* checkSolved.
CheckSolved ==
    /\ ckPc = "searching"
    /\ ckAt < Len(logOf(ckSearch, build).calls)
    /\ ckAt' = ckAt + 1
    /\ ckCall' = At(logOf(ckSearch, build).calls, ckAt)
    /\ UNCHANGED <<build, puzzleVars, mainVars, callVars, formatVars,
                   solveVars, ckSearch, ckPc>>

\* The search ends: the last call of checkSolved found the Puzzle solved
\* (line 85) and the thread goes on to announce it, or slice() threw, or
\* the loops ended and the search returned.
SearchEnd ==
    /\ ckPc = "searching"
    /\ ckAt = Len(logOf(ckSearch, build).calls)
    /\ ckPc' = logOf(ckSearch, build).kind
    /\ UNCHANGED <<build, puzzleVars, mainVars, callVars, formatVars,
                   solveVars, ckSearch, ckAt, ckCall>>

NextChecks == CheckSolved \/ SearchEnd

SpecChecks == InitChecks /\ [][NextChecks]_vars

\* A call of checkSolved has been made.
Checked == ckAt > 0

\* The number of search moves of the list passed to checkSolved.
CheckedSearchMoves == Len(ckCall.moves) - Len(ckSearch.moves)

\* C21: every move list passed to checkSolved is the base move list
\* followed by at least 1 and at most MaxDepth + 1 search moves (9 for the
\* code's depth > 8), for the lambda of a task and for
\* solve(start, moves, 0) alike; solve called one level deeper on the
\* checked Puzzle makes no call of checkSolved and returns.
C21_DepthBoundRespected ==
    Checked =>
       /\ Len(ckCall.moves) >= Len(ckSearch.moves)
       /\ SubSeq(ckCall.moves, 1, Len(ckSearch.moves)) = ckSearch.moves
       /\ CheckedSearchMoves \in 1 .. (MaxDepth + 1)
       /\ solveLog(ckCall.p, ckCall.moves, MaxDepth + 1, build)
             = Log("none", <<>>)
       /\ solve(ckCall.p, ckCall.moves, MaxDepth + 1, build) = NoResult

\* solve(start, moves, 0) has passed a list of MaxDepth + 1 search moves
\* to checkSolved.
C21_DeepestCheckOfSolve ==
    /\ Checked
    /\ ckSearch.fn = "solve"
    /\ CheckedSearchMoves = MaxDepth + 1


\* ------------------------------------------------------------------------
\* Properties of turnRow on whole turns (SpecCalls).

\* A multiple of 18 other than 0.
WholeTurn(n) == n # 0 /\ CRem(n, SLOTS_PER_ROW) = 0

\* C22, as claimed: turn(a, b) on a Puzzle whose rows fit in 108 bits
\* leaves the top row as it was when a is a multiple of 18 other than 0,
\* and the bottom row as it was when b is one (turnRow(row, slots) == row
\* whenever slots mod 18 is zero and slots is not 0).
C22_WholeTurnLeavesRow ==
    (Returned("turn") /\ Fits(call.p))
      => /\ WholeTurn(call.n) => ret.p.top = call.p.top
         /\ WholeTurn(call.m) => ret.p.bottom = call.p.bottom


\* ------------------------------------------------------------------------
\* Properties of the move history (SpecChecks).

\* C23: at every call checkSolved(p, moves, endsOnSlice) of a search
\* started as in main, replaying the entries of moves from the solved
\* default Puzzle (decode, turn, then slice; no slice after the last entry
\* when endsOnSlice is false) throws nothing and gives exactly the rows of
\* p.
C23_HistoryReproducesPuzzle ==
    Checked =>
       LET r == Replay(DefaultPuzzle, ckCall.moves, ckCall.endsOnSlice, build)
       IN /\ ~r.thrown
          /\ r.p.top = ckCall.p.top
          /\ r.p.bottom = ckCall.p.bottom

\* C23 happens: a task passed a sliced Puzzle to checkSolved below the
\* first level of its search, with a last move that turns both rows.
C23_CheckedSlicedBelowTask ==
    /\ Checked
    /\ ckSearch.fn = "task"
    /\ ckCall.endsOnSlice
    /\ CheckedSearchMoves > 1
    /\ LET d == decodeMove(ckCall.moves[Len(ckCall.moves)])
       IN d[1] # 0 /\ d[2] # 0 /\ d[1] # d[2]


\* ------------------------------------------------------------------------
\* Properties of the no-op entries in formatMoves (SpecFormat).

IsRealMove(x) == x # 0

\* l with its zero entries deleted.
RealMoves(l) == SelectSeq(l, IsRealMove)

HasNoOp(l) == \E i \in DOMAIN l : l[i] = 0

\* The number of turn pairs in a rendered text.
PairsIn(text) ==
    Cardinality({ i \in DOMAIN text : text[i].tok = "num" }) \div 2

RECURSIVE ignoreZeroesReads(_, _, _)
ignoreZeroesReads(moves, i, sliceParity) ==
    IF i = Len(moves)
    THEN IF sliceParity % 2 = 1 THEN {i - 1} ELSE {}
    ELSE IF At(moves, i) = 0
    THEN {i} \cup ignoreZeroesReads(moves, i + 1, sliceParity + 1)
    ELSE {i} \cup (IF sliceParity % 2 = 1 THEN {i - 1} ELSE {})
             \cup ignoreZeroesReads(moves, i + 1, 0)

====
